---- MODULE Spec2Model ----
(***************************************************************************)
(* Model of app_lab_phase1.py: process_file (the correction pipeline) and  *)
(* the upload branch of the Streamlit script that calls it and then reads  *)
(* the two export files back for the download buttons.                     *)
(*                                                                         *)
(* Numbers are exact: a numeric cell holds an integer count of 1e-4 units, *)
(* so round(x, 4) is rounding to the nearest integer (ties to even), and   *)
(* the summary scalars are exact fractions num/den.  IEEE specials that    *)
(* the code can produce (NaN from a blank cell or 0/0, inf from x/0) are   *)
(* kept as separate kinds.                                                 *)
(***************************************************************************)
EXTENDS Integers, Sequences, FiniteSets, TLC

MaxRows == 2
MaxClock == 1

Procs == {1, 2}

(* ---------- cells of the uploaded sheet ---------- *)
Num(n) == [kind |-> "num", val |-> n]
Text(k) == [kind |-> "text", val |-> k]
NaN == [kind |-> "nan", val |-> 0]

NumValues == {-1, 0, 1, 60}
Cells == {Num(n) : n \in NumValues} \cup {Text(1), NaN}
ParCells == {Num(1), Num(60)}

AllColumns == <<"timestamp", "ace_before", "ace_after", "note">>
NoBefore == <<"timestamp", "ace_after", "note">>
NoAfter == <<"timestamp", "ace_before", "note">>

Range(s) == {s[i] : i \in 1..Len(s)}

(* row i of n of a sheet with columns cols; timestamps descend, so the     *)
(* input order is not the sorted order                                     *)
MkRow(cols, i, n, pair) ==
  [c \in Range(cols) |->
     CASE c = "timestamp" -> n - i + 1
       [] c = "ace_before" -> pair[1]
       [] c = "ace_after" -> pair[2]
       [] OTHER -> 100 + i]

MkFrame(cols, pairs) ==
  [columns |-> cols,
   rows |-> [i \in 1..Len(pairs) |-> MkRow(cols, i, Len(pairs), pairs[i])]]

PairSeqs(cs, n) == UNION {[1..k -> cs \X cs] : k \in 0..n}

Datasets ==
  {MkFrame(cols, pairs) : cols \in {AllColumns, NoBefore, NoAfter},
                          pairs \in PairSeqs(Cells, MaxRows)}

ParDatasets == {MkFrame(AllColumns, pairs) : pairs \in [1..1 -> ParCells \X ParCells]}

NoTable == [columns |-> <<>>, rows |-> <<>>]

(* ---------- Python / numpy scalar semantics ---------- *)
Abs(x) == IF x < 0 THEN -x ELSE x

\* a != b : NaN differs from everything, itself included
Ne(a, b) == IF a.kind = "nan" \/ b.kind = "nan" THEN TRUE ELSE a # b

\* a > b and a < b raise TypeError between str and a number
CmpRaises(a, b) == (a.kind = "text") # (b.kind = "text")
Gt(a, b) == a.kind # "nan" /\ b.kind # "nan" /\ a.val > b.val
Lt(a, b) == a.kind # "nan" /\ b.kind # "nan" /\ a.val < b.val

\* a - b raises TypeError when an operand is a str
SubRaises(a, b) == a.kind = "text" \/ b.kind = "text"
AbsDiff(a, b) ==
  IF a.kind = "nan" \/ b.kind = "nan" THEN NaN ELSE Num(Abs(a.val - b.val))

(* ---------- the derived columns of Table 1 ---------- *)
AnomalyScore(row) == IF Ne(row["ace_before"], row["ace_after"]) THEN 1 ELSE -1

IsAnomaly(score) == score = 1

\* variant: the first comparison is >= instead of >
MoreOrLessGe(row) ==
  IF ~Lt(row["ace_after"], row["ace_before"]) /\ row["ace_after"].kind # "nan"
     /\ row["ace_before"].kind # "nan" THEN "more"
  ELSE IF Lt(row["ace_after"], row["ace_before"]) THEN "less"
  ELSE "equal"

MoreOrLess(row) ==
  IF Gt(row["ace_after"], row["ace_before"]) THEN "more"
  ELSE IF Lt(row["ace_after"], row["ace_before"]) THEN "less"
  ELSE "equal"

\* variant: the difference without abs()
ErrorSigned(row) ==
  IF Ne(row["ace_before"], row["ace_after"])
  THEN (IF row["ace_after"].kind = "nan" \/ row["ace_before"].kind = "nan" THEN NaN
        ELSE Num(row["ace_after"].val - row["ace_before"].val))
  ELSE Num(0)

Error(row) ==
  IF Ne(row["ace_before"], row["ace_after"])
  THEN AbsDiff(row["ace_after"], row["ace_before"])
  ELSE Num(0)

\* df[name] = series
AddColumn(t, name, series) ==
  [columns |-> Append(t.columns, name),
   rows |-> [i \in 1..Len(t.rows) |-> t.rows[i] @@ (name :> series[i])]]

HasColumn(t, name) == name \in Range(t.columns)

(* ---------- summary scalars: exact fractions, NaN, +inf ---------- *)
Fin(n, d) == [kind |-> "fin", num |-> n, den |-> d]
SNaN == [kind |-> "nan", num |-> 0, den |-> 1]
SInf == [kind |-> "inf", num |-> 1, den |-> 1]

Column(t, name) == [i \in 1..Len(t.rows) |-> t.rows[i][name]]

RECURSIVE SumCells(_)
SumCells(cells) ==
  IF cells = <<>> THEN 0
  ELSE (IF Head(cells).kind = "num" THEN Head(cells).val ELSE 0) + SumCells(Tail(cells))

CountCells(cells) == Cardinality({i \in 1..Len(cells) : cells[i].kind = "num"})

\* variant: a mean that skips str entries instead of raising
MeanSkipsText(cells) == FALSE

\* Series.mean() over an object column that holds a str raises TypeError
MeanRaises(cells) == \E i \in 1..Len(cells) : cells[i].kind = "text"

\* Series.mean(): NaN entries are skipped; the mean of nothing is NaN
Mean(cells) ==
  IF CountCells(cells) = 0 THEN SNaN ELSE Fin(SumCells(cells), CountCells(cells))

\* Series.sum(): NaN entries are skipped; the sum of nothing is 0
Sum(cells) == Fin(SumCells(cells), 1)

\* numpy float64 division; the numerator is a mean of absolute values and
\* is never negative, so x/0 is NaN or +inf
Div(x, y) ==
  IF x.kind = "nan" \/ y.kind = "nan" THEN SNaN
  ELSE IF y.num = 0 THEN (IF x.num = 0 THEN SNaN ELSE SInf)
  ELSE IF y.num > 0 THEN Fin(x.num * y.den, x.den * y.num)
  ELSE Fin(-(x.num * y.den), -(x.den * y.num))

Times(x, k) == IF x.kind = "fin" THEN Fin(x.num * k, x.den) ELSE x

\* x < y on floats: every comparison with NaN is false
Less(x, y) ==
  /\ x.kind # "nan" /\ y.kind # "nan"
  /\ x.kind = "fin"
  /\ (y.kind = "inf" \/ x.num * y.den < y.num * x.den)

\* variant: max in place of min
PyMax(a, b) == IF Less(a, b) THEN b ELSE a

\* the builtin min(a, b): b when b < a, else a
PyMin(a, b) == IF Less(b, a) THEN b ELSE a

Cap == 5

AvgErrorPct(avg, t) == Times(Div(avg, Mean(Column(t, "ace_before"))), 100)

CappedPct(pct) == PyMin(pct, Fin(Cap, 1))

(* ---------- the estimated column of Table 2 ---------- *)
\* round(n/d) to the nearest integer, ties to the even one (d > 0)
RoundHalfEven(n, d) ==
  LET q == n \div d
      r == n % d
  IN IF 2 * r < d THEN q
     ELSE IF 2 * r > d THEN q + 1
     ELSE IF q % 2 = 0 THEN q ELSE q + 1

\* round(before * (1 + capped_pct / 100), 4)
Scaled(before, capped) ==
  IF before.kind = "nan" \/ capped.kind # "fin" THEN NaN
  ELSE Num(RoundHalfEven(before.val * (100 * capped.den + capped.num),
                         100 * capped.den))

\* variant: every row is scaled, unchanged ones too
EstimatedAlwaysScaled(row, capped) == Scaled(row["ace_before"], capped)

\* variant: anomalous rows are scaled from ace_after
EstimatedFromAfter(row, capped) ==
  IF row["anomaly_score"] = -1 THEN row["ace_before"]
  ELSE Scaled(row["ace_after"], capped)

Estimated(row, capped) ==
  IF row["anomaly_score"] = -1 THEN row["ace_before"]
  ELSE Scaled(row["ace_before"], capped)

\* variant: table2 = table1 without the copy, one frame under two names
EstimateTablesInPlace(t1, capped) ==
  <<AddColumn(t1, "estimated", [i \in 1..Len(t1.rows) |-> Estimated(t1.rows[i], capped)]),
    AddColumn(t1, "estimated", [i \in 1..Len(t1.rows) |-> Estimated(t1.rows[i], capped)])>>

\* table2 = table1.copy(); table2['estimated'] = ...   gives <<table1, table2>>
EstimateTables(t1, capped) ==
  <<t1, AddColumn(t1, "estimated", [i \in 1..Len(t1.rows) |-> Estimated(t1.rows[i], capped)])>>

(* ---------- the output directory ---------- *)
File1(tid) == <<"table1_raw", tid>>
File2(tid) == <<"table2_corrected", tid>>
FileNames == {"table1_raw", "table2_corrected"} \X (0..MaxClock)
NoFile == [exists |-> FALSE, data |-> NoTable]
Written(t) == [exists |-> TRUE, data |-> t]

\* pc: position of each script run; uploaded_file: the sheet each run was
\* given; table1 .. time_id: process_file's locals; exc: the exception that
\* ended the run, if any; returned: the caller holds process_file's return
\* value; download1, download2: what the two download buttons read; fs: the
\* files under output/; clock: datetime.now(), in seconds
VARIABLES pc, uploaded_file, table1, table2, avg_error, avg_error_pct, total_error, capped_pct, time_id, exc, returned, download1, download2, fs, clock

vars == <<pc, uploaded_file, table1, table2, avg_error, avg_error_pct,
          total_error, capped_pct, time_id, exc, returned, download1,
          download2, fs, clock>>

locals == <<table1, table2, avg_error, avg_error_pct, total_error, capped_pct,
            time_id>>

InitRest ==
  /\ table1 = [p \in Procs |-> NoTable]
  /\ table2 = [p \in Procs |-> NoTable]
  /\ avg_error = [p \in Procs |-> SNaN]
  /\ avg_error_pct = [p \in Procs |-> SNaN]
  /\ total_error = [p \in Procs |-> SNaN]
  /\ capped_pct = [p \in Procs |-> SNaN]
  /\ time_id = [p \in Procs |-> -1]
  /\ exc = [p \in Procs |-> "none"]
  /\ returned = [p \in Procs |-> FALSE]
  /\ download1 = [p \in Procs |-> NoFile]
  /\ download2 = [p \in Procs |-> NoFile]
  /\ fs = [f \in FileNames |-> NoFile]
  /\ clock = 0

\* one session uploads a sheet, the other shows the upload prompt
Init ==
  /\ \E d \in Datasets : uploaded_file = [p \in Procs |-> IF p = 1 THEN d ELSE NoTable]
  /\ pc = [p \in Procs |-> IF p = 1 THEN "uploaded" ELSE "no_file"]
  /\ InitRest

\* two sessions upload a sheet each
InitPar ==
  /\ uploaded_file \in [Procs -> ParDatasets]
  /\ pc = [p \in Procs |-> "uploaded"]
  /\ InitRest

Raise(p, e) ==
  /\ exc' = [exc EXCEPT ![p] = e]
  /\ pc' = [pc EXCEPT ![p] = "failed"]

\* lines 11-35: read the sheet, add the four derived columns, copy to table1
Detect(p) ==
  /\ pc[p] = "uploaded"
  /\ LET df == uploaded_file[p]
         n == Len(df.rows)
         d1 == AddColumn(df, "anomaly_score", [i \in 1..n |-> AnomalyScore(df.rows[i])])
         d2 == AddColumn(d1, "is_anomaly",
                         [i \in 1..n |-> IsAnomaly(d1.rows[i]["anomaly_score"])])
         d3 == AddColumn(d2, "more_or_less", [i \in 1..n |-> MoreOrLess(d2.rows[i])])
         d4 == AddColumn(d3, "error", [i \in 1..n |-> Error(d3.rows[i])])
     IN IF ~HasColumn(df, "ace_before") \/ ~HasColumn(df, "ace_after")
        THEN Raise(p, "KeyError") /\ UNCHANGED table1
        ELSE IF \E i \in 1..Len(df.rows) :
                  \/ CmpRaises(df.rows[i]["ace_after"], df.rows[i]["ace_before"])
                  \/ /\ Ne(df.rows[i]["ace_before"], df.rows[i]["ace_after"])
                     /\ SubRaises(df.rows[i]["ace_after"], df.rows[i]["ace_before"])
        THEN Raise(p, "TypeError") /\ UNCHANGED table1
        ELSE /\ table1' = [table1 EXCEPT ![p] = d4]
             /\ pc' = [pc EXCEPT ![p] = "detected"]
             /\ UNCHANGED exc
  /\ UNCHANGED <<uploaded_file, table2, avg_error, avg_error_pct, total_error,
                 capped_pct, time_id, returned, download1, download2, fs, clock>>

\* lines 38-41: the summary scalars
Summarise(p) ==
  /\ pc[p] = "detected"
  /\ LET avg == Mean(Column(table1[p], "error"))
         pct == AvgErrorPct(avg, table1[p])
     IN IF MeanRaises(Column(table1[p], "ace_before"))
        THEN /\ Raise(p, "TypeError")
             /\ UNCHANGED <<avg_error, avg_error_pct, total_error, capped_pct>>
        ELSE /\ avg_error' = [avg_error EXCEPT ![p] = avg]
             /\ avg_error_pct' = [avg_error_pct EXCEPT ![p] = pct]
             /\ total_error' = [total_error EXCEPT ![p] = Sum(Column(table1[p], "error"))]
             /\ capped_pct' = [capped_pct EXCEPT ![p] = CappedPct(pct)]
             /\ pc' = [pc EXCEPT ![p] = "summarised"]
             /\ UNCHANGED exc
  /\ UNCHANGED <<uploaded_file, table1, table2, time_id, returned, download1,
                 download2, fs, clock>>

\* lines 44-49: table2 with the estimated column
Estimate(p) ==
  /\ pc[p] = "summarised"
  /\ LET ts == EstimateTables(table1[p], capped_pct[p])
     IN /\ table1' = [table1 EXCEPT ![p] = ts[1]]
        /\ table2' = [table2 EXCEPT ![p] = ts[2]]
  /\ pc' = [pc EXCEPT ![p] = "estimated"]
  /\ UNCHANGED <<uploaded_file, avg_error, avg_error_pct, total_error, capped_pct,
                 time_id, exc, returned, download1, download2, fs, clock>>

\* lines 52-57: the two paths are named after the current second
NamePaths(p) ==
  /\ pc[p] = "estimated"
  /\ time_id' = [time_id EXCEPT ![p] = clock]
  /\ pc' = [pc EXCEPT ![p] = "named"]
  /\ UNCHANGED <<uploaded_file, table1, table2, avg_error, avg_error_pct,
                 total_error, capped_pct, exc, returned, download1, download2,
                 fs, clock>>

\* line 59: table1.to_excel(file1)
Write1(p) ==
  /\ pc[p] = "named"
  /\ fs' = [fs EXCEPT ![File1(time_id[p])] = Written(table1[p])]
  /\ pc' = [pc EXCEPT ![p] = "wrote1"]
  /\ UNCHANGED <<uploaded_file, locals, exc, returned, download1, download2, clock>>

\* line 60: table2.to_excel(file2)
Write2(p) ==
  /\ pc[p] = "wrote1"
  /\ fs' = [fs EXCEPT ![File2(time_id[p])] = Written(table2[p])]
  /\ pc' = [pc EXCEPT ![p] = "wrote2"]
  /\ UNCHANGED <<uploaded_file, locals, exc, returned, download1, download2, clock>>

\* lines 62 and 73: the caller receives the tables, scalars and paths
Return(p) ==
  /\ pc[p] = "wrote2"
  /\ returned' = [returned EXCEPT ![p] = TRUE]
  /\ pc' = [pc EXCEPT ![p] = "returned"]
  /\ UNCHANGED <<uploaded_file, locals, exc, download1, download2, fs, clock>>

\* lines 86-87: open(file1) for the first download button
Download1(p) ==
  /\ pc[p] = "returned"
  /\ download1' = [download1 EXCEPT ![p] = fs[File1(time_id[p])]]
  /\ pc' = [pc EXCEPT ![p] = "shown1"]
  /\ UNCHANGED <<uploaded_file, locals, exc, returned, download2, fs, clock>>

\* lines 104-105: open(file2) for the second download button
Download2(p) ==
  /\ pc[p] = "shown1"
  /\ download2' = [download2 EXCEPT ![p] = fs[File2(time_id[p])]]
  /\ pc' = [pc EXCEPT ![p] = "done"]
  /\ UNCHANGED <<uploaded_file, locals, exc, returned, download1, fs, clock>>

\* a second passes
Tick ==
  /\ clock < MaxClock
  /\ clock' = clock + 1
  /\ UNCHANGED <<pc, uploaded_file, locals, exc, returned, download1, download2, fs>>

Run(p) ==
  \/ Detect(p)
  \/ Summarise(p)
  \/ Estimate(p)
  \/ NamePaths(p)
  \/ Write1(p)
  \/ Write2(p)
  \/ Return(p)
  \/ Download1(p)
  \/ Download2(p)

Next == \E p \in Procs : Run(p)

Spec == Init /\ [][Next]_vars

NextPar == (\E p \in Procs : Run(p)) \/ Tick

SpecPar == InitPar /\ [][NextPar]_vars

(* ======================= properties ======================= *)
Detected(p) == pc[p] \notin {"uploaded", "no_file", "failed"}
Summarised(p) == Detected(p) /\ pc[p] # "detected"
Corrected(p) == Summarised(p) /\ pc[p] # "summarised"

IsNumber(c) == c.kind = "num"
HasRequired(df) == HasColumn(df, "ace_before") /\ HasColumn(df, "ace_after")
NumericRow(r) == IsNumber(r["ace_before"]) /\ IsNumber(r["ace_after"])
NumericInput(df) ==
  HasRequired(df) /\ \A i \in 1..Len(df.rows) : NumericRow(df.rows[i])

\* equality of two finite fractions
SameValue(x, y) ==
  x.kind = "fin" /\ y.kind = "fin" /\ x.num * y.den = y.num * x.den

\* C1: in every row of Table 1 made from two finite numbers the four derived
\* columns agree: is_anomaly <=> anomaly_score = 1 <=> error > 0 <=>
\* more_or_less is not "equal".
C1_ColumnsAgree ==
  \A p \in Procs : \A i \in 1..Len(table1[p].rows) :
    LET r == table1[p].rows[i] IN
    NumericRow(r) =>
      /\ r["is_anomaly"] = (r["anomaly_score"] = 1)
      /\ r["is_anomaly"] = (IsNumber(r["error"]) /\ r["error"].val > 0)
      /\ r["is_anomaly"] = (r["more_or_less"] # "equal")

C1_Witness ==
  \E p \in Procs : \E i, j \in 1..Len(table1[p].rows) :
    /\ NumericRow(table1[p].rows[i]) /\ table1[p].rows[i]["is_anomaly"]
    /\ table1[p].rows[i]["more_or_less"] = "less"
    /\ NumericRow(table1[p].rows[j]) /\ ~table1[p].rows[j]["is_anomaly"]

\* C2: a sheet with zero rows is rejected: process_file never returns tables
\* and summary scalars for it.
C2_EmptyRejected ==
  \A p \in Procs :
    (HasRequired(uploaded_file[p]) /\ Len(uploaded_file[p].rows) = 0)
      => ~returned[p]

\* C3: when the mean of ace_before is 0 the pipeline raises: it returns
\* nothing and no export file is written.
C3_ZeroBaselineRejected ==
  \A p \in Procs :
    LET df == uploaded_file[p] IN
    (/\ NumericInput(df) /\ Len(df.rows) > 0
     /\ SumCells(Column(df, "ace_before")) = 0)
      => (~returned[p] /\ pc[p] \in {"uploaded", "failed"}
          /\ \A f \in FileNames : ~fs[f].exists)

Malformed(df) ==
  \/ ~HasRequired(df)
  \/ \E i \in 1..Len(df.rows) :
       df.rows[i]["ace_before"].kind = "text" \/ df.rows[i]["ace_after"].kind = "text"

C5_RunsIsolated ==
  \A p \in Procs :
    pc[p] = "done" =>
      /\ download1[p] = Written(table1[p])
      /\ download2[p] = Written(table2[p])

\* C6: every row of Table 2 with anomaly_score = -1 has estimated equal to
\* its ace_before, unrounded and unscaled.
C6_UnchangedRowsVerbatim ==
  \A p \in Procs : \A i \in 1..Len(table2[p].rows) :
    LET r == table2[p].rows[i] IN
    r["anomaly_score"] = -1 => r["estimated"] = r["ace_before"]

C6_Witness ==
  \E p \in Procs : \E i \in 1..Len(table2[p].rows) :
    /\ table2[p].rows[i]["anomaly_score"] = -1
    /\ table2[p].rows[i]["ace_before"] = Num(60)
    /\ capped_pct[p].kind = "fin" /\ capped_pct[p].num > 0

NonNegative(x) == x.kind = "inf" \/ (x.kind = "fin" /\ x.num >= 0)

\* C7: when avg_error_pct >= 0, capped_pct lies in [0, 5]; it is
\* avg_error_pct when avg_error_pct < 5 and 5 otherwise.
C7_CapBounds ==
  \A p \in Procs :
    (Summarised(p) /\ NonNegative(avg_error_pct[p])) =>
      /\ capped_pct[p].kind = "fin"
      /\ capped_pct[p].num >= 0
      /\ capped_pct[p].num <= 5 * capped_pct[p].den
      /\ IF Less(avg_error_pct[p], Fin(5, 1))
         THEN capped_pct[p] = avg_error_pct[p]
         ELSE SameValue(capped_pct[p], Fin(5, 1))

C7_Witness ==
  \E p \in Procs :
    /\ Summarised(p)
    /\ avg_error_pct[p].kind = "fin" /\ avg_error_pct[p].num > 0
    /\ Less(avg_error_pct[p], Fin(5, 1))

\* e is n/d rounded to the nearest integer, ties to even (d > 0)
IsRounded(e, n, d) ==
  /\ 2 * Abs(e * d - n) <= d
  /\ (2 * Abs(e * d - n) = d => e % 2 = 0)

\* C8: every row of Table 2 with anomaly_score = 1 has estimated =
\* round(ace_before * (1 + capped_pct/100), 4) for the run's one capped_pct,
\* so rows with equal ace_before and anomaly_score have equal estimated.
C8_ScaledByGlobalCap ==
  \A p \in Procs :
    /\ \A i \in 1..Len(table2[p].rows) :
         LET r == table2[p].rows[i]
             c == capped_pct[p]
         IN r["anomaly_score"] = 1 =>
              IF IsNumber(r["ace_before"]) /\ c.kind = "fin"
              THEN /\ IsNumber(r["estimated"])
                   /\ IsRounded(r["estimated"].val,
                                r["ace_before"].val * (100 * c.den + c.num),
                                100 * c.den)
              ELSE r["estimated"] = NaN
    /\ \A i, j \in 1..Len(table2[p].rows) :
         (/\ table2[p].rows[i]["ace_before"] = table2[p].rows[j]["ace_before"]
          /\ table2[p].rows[i]["anomaly_score"] = table2[p].rows[j]["anomaly_score"])
           => table2[p].rows[i]["estimated"] = table2[p].rows[j]["estimated"]

C8_Witness ==
  \E p \in Procs : \E i, j \in 1..Len(table2[p].rows) :
    /\ table2[p].rows[i]["anomaly_score"] = 1
    /\ table2[p].rows[j]["anomaly_score"] = 1
    /\ table2[p].rows[i]["ace_before"] = Num(60)
    /\ table2[p].rows[j]["ace_before"] = Num(60)
    /\ table2[p].rows[i]["ace_after"] # table2[p].rows[j]["ace_after"]
    /\ table2[p].rows[i]["estimated"] = Num(63)

DerivedColumns == <<"anomaly_score", "is_anomaly", "more_or_less", "error">>

\* C9: Table 1 and Table 2 hold the input's rows in the input's order with
\* every input column unchanged; Table 2 agrees with Table 1 on Table 1's
\* columns; Table 1 has no estimated column once Table 2 is built.
C9_InputKept ==
  \A p \in Procs :
    LET df == uploaded_file[p] IN
    /\ Detected(p) =>
         /\ table1[p].columns = df.columns \o DerivedColumns
         /\ Len(table1[p].rows) = Len(df.rows)
         /\ \A i \in 1..Len(df.rows) :
              /\ DOMAIN table1[p].rows[i] = Range(table1[p].columns)
              /\ \A c \in Range(df.columns) : table1[p].rows[i][c] = df.rows[i][c]
    /\ Corrected(p) =>
         /\ table2[p].columns = Append(table1[p].columns, "estimated")
         /\ Len(table2[p].rows) = Len(df.rows)
         /\ \A i \in 1..Len(df.rows) :
              /\ DOMAIN table2[p].rows[i] = Range(table2[p].columns)
              /\ \A c \in Range(table1[p].columns) :
                   table2[p].rows[i][c] = table1[p].rows[i][c]

C9_Witness ==
  \E p \in Procs :
    /\ pc[p] = "done" /\ returned[p]
    /\ Len(table2[p].rows) = 2
    /\ table2[p].rows[1]["timestamp"] > table2[p].rows[2]["timestamp"]

RECURSIVE SumErrors(_)
SumErrors(rows) ==
  IF rows = <<>> THEN 0 ELSE Head(rows)["error"].val + SumErrors(Tail(rows))

SummaryConsistent(p) ==
  /\ \A i \in 1..Len(table1[p].rows) :
       LET r == table1[p].rows[i] IN
       /\ IsNumber(r["error"])
       /\ r["error"].val >= 0
       /\ r["error"].val = Abs(r["ace_after"].val - r["ace_before"].val)
  /\ total_error[p] = Fin(SumErrors(table1[p].rows), 1)
  /\ SameValue(avg_error[p], Fin(total_error[p].num, Len(table1[p].rows)))

====
